---- MODULE Spec2Model ----
(***************************************************************************)
(* Model of index.js of node-mongodb-s3-backup-restore: the backup         *)
(* pipeline (sync) and the restore pipeline (restoreFromS3), each an       *)
(* async.series over callback-style steps that spawn external processes    *)
(* and talk to an S3 bucket through knox.                                  *)
(*                                                                         *)
(* Names (file names, directory names) are sequences of string tokens, a   *)
(* path is a sequence of names, an error is a record of its message text   *)
(* and the value concatenated to it.                                       *)
(***************************************************************************)
EXTENDS Integers, Sequences, FiniteSets, TLC

\* ------------------------------------------------------------- bounds
\* The clock (epoch milliseconds) runs from 0 to MaxClock.
MaxClock == 1
\* Child processes exit with a code in 0..MaxExitCode.
MaxExitCode == 2
\* A caller calls removeRF on one path at most MaxCalls times in a row.
MaxCalls == 2
\* the last clock instant (ms) and the number of calls of the archive namer
MaxInstant == 11
MaxNames == 2
\* the number of chunks a child process writes to its standard streams
MaxChunks == 1

\* ------------------------------------------------------------- inputs
Runs == {"r1", "r2"}
DBs == {"db1", "db2"}
\* options.destination of the s3 config: "" stands for an absent value.
Destinations == {"", "backups"}
Statuses == {200, 404, 500}
ExitCodes == 0..MaxExitCode

\* ------------------------------------------------------------- strings
Digit(d) ==
  CASE d = 0 -> "0" [] d = 1 -> "1" [] d = 2 -> "2" [] d = 3 -> "3"
    [] d = 4 -> "4" [] d = 5 -> "5" [] d = 6 -> "6" [] d = 7 -> "7"
    [] d = 8 -> "8" [] d = 9 -> "9"

RECURSIVE DecStr(_)
\* Number to string conversion of JavaScript's + and join, for n >= 0.
DecStr(n) == IF n < 10 THEN <<Digit(n)>> ELSE DecStr(n \div 10) \o <<Digit(n % 10)>>

RECURSIVE Join(_, _)
\* Array.prototype.join: the parts, each a token sequence, separated by sep.
Join(parts, sep) ==
  IF Len(parts) = 0 THEN <<>>
  ELSE IF Len(parts) = 1 THEN parts[1]
  ELSE parts[1] \o <<sep>> \o Join(Tail(parts), sep)

\* ------------------------------------------------------------- dates
MsPerDay == 86400000
\* new Date() getters at epoch millisecond t, in UTC, for instants of January 1970.
getFullYear(t) == 1970
getMonth(t) == 0
getDate(t) == (t \div MsPerDay) + 1
getTime(t) == t

\* Mutant: the name the doc comment promises, database_YYYY_MM_DD.tar.gz.
getArchiveNameOfDay(databaseName, t) ==
  LET datestring == << <<databaseName>>, DecStr(getFullYear(t)), DecStr(getMonth(t) + 1),
                       DecStr(getDate(t)) >>
  IN  Join(datestring, "_") \o <<".tar.gz">>
getArchiveName(databaseName, t) ==
  LET datestring == << <<databaseName>>, DecStr(getFullYear(t)), DecStr(getMonth(t) + 1),
                       DecStr(getDate(t)), DecStr(getTime(t)) >>
  IN  Join(datestring, "_") \o <<".tar.gz">>

\* ------------------------------------------------------------- paths
\* path.join(os.tmpDir(), 'mongodb_s3_backup')
tmpDir == << <<"tmp">>, <<"mongodb_s3_backup">> >>
\* path.join(tmpDir, name)
PathJoin(dir, name) == Append(dir, name)
backupDirOf(d) == PathJoin(tmpDir, <<d>>)

IsPrefix(p, q) == Len(p) <= Len(q) /\ SubSeq(q, 1, Len(p)) = p

\* The path as the string handed to the shell, '/' between its names.
PathStr(p) == Join(p, "/")

RECURSIVE Split(_, _)
\* The pieces of a token sequence between the occurrences of sep.
Split(toks, sep) ==
  IF toks = <<>> THEN << <<>> >>
  ELSE LET rest == Split(Tail(toks), sep)
       IN  IF Head(toks) = sep THEN << <<>> >> \o rest
           ELSE << <<Head(toks)>> \o rest[1] >> \o Tail(rest)

\* exec('rm -rf ' + target): the shell splits the unquoted target at blanks
\* and rm gets one path per word.
ShellPaths(target) ==
  LET words == Split(PathStr(target), " ")
  IN  {Split(words[i], "/") : i \in {j \in 1..Len(words) : words[j] # <<>>}}

\* What the rm -rf of that command line leaves of a set of existing paths.
RmRf(files, target) == {p \in files : \A w \in ShellPaths(target) : ~IsPrefix(w, p)}

\* An archive a previous backup of db1 left in the bucket, and one that is not there.
OldArchive == <<"db1", "_", "old", ".tar.gz">>
MissingArchive == <<"db2", "_", "missing", ".tar.gz">>
RemoteNames == {OldArchive, MissingArchive}
\* The directory an archive unpacks to: the one that was compressed into it.
ArchivedDir(name) == <<name[1]>>
\* A directory whose name holds a blank, and the directory named by its first word.
SpacedDir == PathJoin(tmpDir, <<"my", " ", "db">>)
FirstWordDir == PathJoin(tmpDir, <<"my">>)

\* ------------------------------------------------------------- errors
\* An error object: the tokens of its message text and the value appended to
\* it. NoError is the null a callback gets on success.
NoError == [text |-> <<>>, arg |-> <<>>]
Err(text, arg) == [text |-> text, arg |-> arg]
\* Mutant: every runner's message names the dump tool.
ExitErrorSameTool(tool, code) == Err(<<"Mongodump", " exited with code ">>, DecStr(code))
\* new Error(tool + " exited with code " + code) of the process runners
ExitError(tool, code) == Err(<<tool, " exited with code ">>, DecStr(code))
\* new Error('Expected a 200 response from S3, got ' + res.statusCode)
StatusError(status) == Err(<<"Expected a 200 response from S3, got ">>, DecStr(status))


\* ------------------------------------------------------------- state
VARIABLES
  now,        \* the clock, epoch milliseconds
  fs,         \* the paths that exist on the local disk
  bucket,     \* the keys of the objects in the S3 bucket
  crashed,    \* an uncaught exception has ended the node process
  asyncOnce,  \* the installed async wraps a task callback in only_once (async >= 1.0)
  enabled,    \* the invocations the caller makes
  run         \* per invocation: configuration, series position, step in flight, history

vars == <<now, fs, bucket, crashed, asyncOnce, enabled, run>>

BackupTasks == <<"removeBackupDir", "removeArchive", "mongoDump", "compressDirectory", "sendToS3">>
RestoreTasks == <<"removeTmpDir", "getFromS3", "uncompressArchive", "mongoRestore">>
Tasks(kind) == IF kind = "backup" THEN BackupTasks ELSE RestoreTasks

IdleRun ==
  [kind |-> "none", db |-> "", dest |-> "", remote |-> <<>>, archiveName |-> <<>>,
   completed |-> 0, final |-> TRUE, cur |-> 0, called |-> FALSE, phase |-> "idle",
   target |-> <<>>, status |-> 0, ended |-> FALSE, mkdirPending |-> FALSE, file |-> "none",
   reports |-> <<>>, started |-> <<>>, onComplete |-> <<>>, log |-> <<>>,
   s3calls |-> <<>>, puts |-> <<>>, spawned |-> <<>>, exits |-> <<>>, startedAt |-> 0,
   existed |-> <<>>, username |-> "", password |-> "", argv |-> <<>>,
   names |-> <<>>, cleaned |-> <<>>, outputs |-> <<>>, chunks |-> <<>>]

\* mongodbConfig.username and mongodbConfig.password of the caller; "" is an
\* absent (or empty, equally falsy) value.
Usernames == {"", "admin"}
Passwords == {"", "secret"}

\* What an earlier backup of db1 at instant 0 left in the staging root.
Leftovers == {tmpDir, backupDirOf("db1"), PathJoin(tmpDir, getArchiveName("db1", 0))}
InitFiles == {{}, Leftovers}

InitCommon ==
  /\ now = 0
  /\ fs \in InitFiles
  /\ bucket = {<<OldArchive>>}
  /\ crashed = FALSE
  /\ asyncOnce \in BOOLEAN
  /\ \E u \in Usernames, p \in Passwords :
       run = [r \in Runs |-> [IdleRun EXCEPT !.username = u, !.password = p]]

\* ------------------------------------------------------------- log
NumTag(n) == CASE n = 200 -> "200" [] n = 404 -> "404" [] n = 500 -> "500" [] OTHER -> "n"

\* log(message, tag): an absent tag ("") is 'info'.
Log(R, text, arg, tag) ==
  [R EXCEPT !.log = Append(@, [tag |-> IF tag = "" THEN "info" ELSE tag, text |-> <<text>>, arg |-> arg])]
\* log(err, tag) of an error object
LogError(R, err, tag) ==
  [R EXCEPT !.log = Append(@, [tag |-> IF tag = "" THEN "info" ELSE tag, text |-> err.text, arg |-> err.arg])]

\* ------------------------------------------------------------- steps: what a call does before it returns
\* Mutant: the path is taken for absent without a look at the disk.
removeRFSkips(R, target) ==
  [R EXCEPT !.phase = "exists", !.target = <<>>,
            !.cleaned = Append(@, [step |-> R.cur, path |-> target])]
\* removeRF(target, callback): the call asks fs.exists for the target.
removeRF(R, target) ==
  [R EXCEPT !.phase = "exists", !.target = target,
            !.cleaned = Append(@, [step |-> R.cur, path |-> target])]

Spawn(R, command) == [R EXCEPT !.spawned = Append(@, command), !.phase = "running"]

\* Mutant: one of the two credentials is enough for both flags.
CredentialOptionsEither(R) ==
  IF R.username # "" \/ R.password # ""
  THEN << <<"-u">>, <<R.username>>, <<"-p">>, <<R.password>> >>
  ELSE <<>>
\* if(options.username && options.password) push -u, username, -p, password
CredentialOptions(R) ==
  IF R.username # "" /\ R.password # ""
  THEN << <<"-u">>, <<R.username>>, <<"-p">>, <<R.password>> >>
  ELSE <<>>

HostPort == <<"host", ":", "port">>

\* mongoOptions of mongoDump(options, directory)
DumpOptions(R) ==
  << <<"-h">>, HostPort, <<"-d">>, <<R.db>>, <<"-o">>, PathStr(tmpDir) >> \o CredentialOptions(R)
\* mongoOptions of mongoRestore(options, backupDir)
RestoreOptions(R) ==
  << <<"-h">>, HostPort, <<"-d">>, <<R.db>>, <<"--drop">>, PathStr(backupDirOf(R.db)) >>
    \o CredentialOptions(R)

mongoDump(R) ==
  [Spawn(Log(R, "Starting mongodump of ", <<R.db>>, "info"), "mongodump")
     EXCEPT !.argv = Append(@, [command |-> "mongodump", args |-> DumpOptions(R)])]

compressDirectory(R) ==
  Spawn(Log(R, "Starting compression of ", <<R.db>> \o <<" into ">> \o R.archiveName, "info"), "tar")

\* Mutant: the destination prefix is dropped.
S3KeyAtRoot(destination, target) == <<target>>
\* path.join(options.destination || '/', target), as the key of the object
S3Key(destination, target) == IF destination = "" THEN <<target>> ELSE << <<destination>>, target >>

sendToS3(R) ==
  LET L == Log(R, "Attemping to upload ", R.archiveName, "")
  IN  [L EXCEPT !.s3calls = Append(@, [op |-> "putFile", key |-> S3Key(R.dest, R.archiveName)]),
                !.phase = "putFile", !.status = 0]

getFromS3(R) ==
  LET L == Log(R, "Attempting to download ", R.remote, "")
  IN  [L EXCEPT !.s3calls = Append(@, [op |-> "getFile", key |-> <<R.remote>>]),
                !.phase = "getFile", !.status = 0, !.ended = FALSE,
                !.mkdirPending = FALSE, !.file = "none"]

uncompressArchive(R) ==
  Spawn(Log(R, "Starting decompression of ", PathStr(PathJoin(tmpDir, R.remote)), "info"), "tar")

mongoRestore(R) ==
  [Spawn(Log(R, "Starting mongorestore of ", <<R.db>>, "info"), "mongorestore")
     EXCEPT !.argv = Append(@, [command |-> "mongorestore", args |-> RestoreOptions(R)])]

StartTask(R, name) ==
  CASE name = "removeBackupDir" -> removeRF(R, backupDirOf(R.db))
    [] name = "removeArchive" -> removeRF(R, PathJoin(tmpDir, R.archiveName))
    [] name = "mongoDump" -> mongoDump(R)
    [] name = "compressDirectory" -> compressDirectory(R)
    [] name = "sendToS3" -> sendToS3(R)
    [] name = "removeTmpDir" -> removeRF(R, tmpDir)
    [] name = "getFromS3" -> getFromS3(R)
    [] name = "uncompressArchive" -> uncompressArchive(R)
    [] name = "mongoRestore" -> mongoRestore(R)

\* ------------------------------------------------------------- async.series
\* iterate(): call the task at index `completed` with a fresh callback.
Iterate(R) ==
  LET k == R.completed + 1
  IN  StartTask([R EXCEPT !.cur = k, !.called = FALSE, !.started = Append(@, k)], Tasks(R.kind)[k])

\* Mutant: the final callback stays installed after an error.
FinalStaysInstalled(R, err) ==
  LET L == IF err # NoError THEN LogError(R, err, "error")
           ELSE Log(R, IF R.kind = "backup" THEN "Successfully backed up "
                                            ELSE "Successfully Restored ", <<R.db>>, "")
  IN  [L EXCEPT !.onComplete = Append(@, err)]
\* The function(err) handed to async.series by sync and by restoreFromS3.
Final(R, err) ==
  IF ~R.final THEN R
  ELSE LET L == IF err # NoError THEN LogError(R, err, "error")
                ELSE Log(R, IF R.kind = "backup" THEN "Successfully backed up "
                                                 ELSE "Successfully Restored ", <<R.db>>, "")
       IN  [L EXCEPT !.onComplete = Append(@, err)]

\* Mutant: an error is handed to the final callback and the series goes on.
SeriesCallbackGoesOn(R, err) ==
  LET R0 == IF err # NoError THEN [Final(R, err) EXCEPT !.final = FALSE] ELSE R
      R1 == [R0 EXCEPT !.completed = @ + 1]
  IN  IF R1.completed = Len(Tasks(R.kind)) THEN Final(R1, NoError)
      ELSE IF R1.completed < Len(Tasks(R.kind)) THEN Iterate(R1)
      ELSE R1
\* The callback async.series hands to a task: an error ends the series and
\* replaces the final callback by a no-op; otherwise the next task is called.
SeriesCallback(R, err) ==
  IF err # NoError THEN [Final(R, err) EXCEPT !.final = FALSE]
  ELSE LET R1 == [R EXCEPT !.completed = @ + 1]
       IN  IF R1.completed = Len(Tasks(R.kind)) THEN Final(R1, NoError)
           ELSE IF R1.completed < Len(Tasks(R.kind)) THEN Iterate(R1)
           ELSE R1

\* A step calls its callback: the one async.series handed to it or, for a
\* direct call, the caller's. With only_once a second call of the same
\* series callback throws, and nothing catches it.
Report(r, R, err) ==
  LET R2 == [R EXCEPT !.reports = Append(@, [step |-> R.cur, err |-> err])]
  IN  IF R.kind = "call"
      THEN /\ crashed' = crashed
           /\ run' = [run EXCEPT ![r] = [R2 EXCEPT !.called = TRUE]]
      ELSE IF asyncOnce /\ R.called
      THEN /\ crashed' = TRUE
           /\ run' = [run EXCEPT ![r] = R2]
      ELSE /\ crashed' = crashed
           /\ run' = [run EXCEPT ![r] = SeriesCallback([R2 EXCEPT !.called = TRUE], err)]

\* ------------------------------------------------------------- entry points
sync(r, d, dst) ==
  /\ ~crashed /\ r \in enabled /\ run[r].kind = "none"
  /\ run' = [run EXCEPT ![r] = Iterate([run[r] EXCEPT !.kind = "backup", !.db = d, !.dest = dst,
                                                      !.archiveName = getArchiveName(d, now),
                                                       !.startedAt = now])]
  /\ UNCHANGED <<now, fs, bucket, crashed, asyncOnce, enabled>>

restoreFromS3(r, d, remoteFilename) ==
  /\ ~crashed /\ r \in enabled /\ run[r].kind = "none"
  /\ run' = [run EXCEPT ![r] = Iterate([run[r] EXCEPT !.kind = "restore", !.db = d,
                                                       !.remote = remoteFilename,
                                                       !.startedAt = now])]
  /\ UNCHANGED <<now, fs, bucket, crashed, asyncOnce, enabled>>

Tick ==
  /\ ~crashed /\ now < MaxClock
  /\ now' = now + 1
  /\ UNCHANGED <<fs, bucket, crashed, asyncOnce, enabled, run>>

\* ------------------------------------------------------------- removeRF events
\* fs.exists answers.
FsExists(r) ==
  LET R == run[r] IN
  /\ ~crashed /\ R.phase = "exists"
  /\ IF R.target \notin fs
     THEN Report(r, [R EXCEPT !.phase = "done"], NoError)
     ELSE /\ run' = [run EXCEPT ![r] =
                       [Log(R, "Removing ", PathStr(R.target), "warn")
                          EXCEPT !.phase = "rm", !.spawned = Append(@, "rm -rf")]]
          /\ crashed' = crashed
  /\ UNCHANGED <<now, fs, bucket, asyncOnce, enabled>>

\* The 'exit' event of the child of the step in flight, with its code.
Exited(R, code) ==
  [R EXCEPT !.phase = "done",
            !.exits = Append(@, [step |-> R.cur, command |-> R.spawned[Len(R.spawned)], code |-> code])]

\* exec's callback: rm -rf has exited.
RmExit(r, code) ==
  LET R == Exited(run[r], code) IN
  /\ ~crashed /\ run[r].phase = "rm"
  /\ IF code = 0
     THEN /\ fs' = RmRf(fs, R.target)
          /\ Report(r, R, NoError)
     ELSE /\ fs' = fs
          /\ Report(r, R, Err(<<"Command failed: ", "rm -rf ">>, DecStr(code)))
  /\ UNCHANGED <<now, bucket, asyncOnce, enabled>>

\* ------------------------------------------------------------- process exit events
Running(r, task) ==
  /\ ~crashed /\ run[r].phase = "running"
  /\ Tasks(run[r].kind)[run[r].cur] = task

\* The step in flight has left the path on disk; it is fresh when the path
\* was not there before.
Produced(R, path) ==
  [R EXCEPT !.outputs = Append(@, [step |-> R.cur, path |-> path, fresh |-> path \notin fs])]

\* mongodump.on('exit'): the dump tool writes <directory>/<db> when it succeeds.
MongoDumpExit(r, code) ==
  LET R == Exited(run[r], code) IN
  /\ Running(r, "mongoDump")
  /\ IF code = 0
     THEN /\ fs' = fs \cup {tmpDir, backupDirOf(R.db)}
          /\ Report(r, Log(Produced(R, backupDirOf(R.db)),
                           "mongodump executed successfully", <<>>, "info"), NoError)
     ELSE /\ fs' = fs
          /\ Report(r, R, ExitError("Mongodump", code))
  /\ UNCHANGED <<now, bucket, asyncOnce, enabled>>

\* tar.on('exit') of compressDirectory: tar -zcf archiveName db, run in tmpDir,
\* succeeds only when its input is there, and then leaves the archive.
CompressExit(r, code) ==
  LET R == Exited(run[r], code) IN
  /\ Running(r, "compressDirectory")
  /\ code = 0 => backupDirOf(R.db) \in fs
  /\ IF code = 0
     THEN /\ fs' = fs \cup {PathJoin(tmpDir, R.archiveName)}
          /\ Report(r, Log(Produced(R, PathJoin(tmpDir, R.archiveName)),
                           "successfully compress directory", <<>>, "info"), NoError)
     ELSE /\ fs' = fs
          /\ Report(r, R, ExitError("Tar", code))
  /\ UNCHANGED <<now, bucket, asyncOnce, enabled>>

\* tar.on('exit') of uncompressArchive: tar -zxvf tmpDir/remote, run in tmpDir,
\* succeeds only on a fully downloaded archive, and then leaves what was archived.
UncompressExit(r, code) ==
  LET R == Exited(run[r], code) IN
  /\ Running(r, "uncompressArchive")
  /\ code = 0 => (PathJoin(tmpDir, R.remote) \in fs /\ R.status = 200)
  /\ IF code = 0
     THEN /\ fs' = fs \cup {PathJoin(tmpDir, ArchivedDir(R.remote))}
          /\ Report(r, Log(Produced(R, PathJoin(tmpDir, ArchivedDir(R.remote))),
                           "successfully uncompressed archive", <<>>, "info"), NoError)
     ELSE /\ fs' = fs
          /\ Report(r, R, ExitError("Tar", code))
  /\ UNCHANGED <<now, bucket, asyncOnce, enabled>>

\* mongodump.on('exit') of mongoRestore: mongorestore succeeds only on an existing backupDir.
MongoRestoreExit(r, code) ==
  LET R == Exited(run[r], code) IN
  /\ Running(r, "mongoRestore")
  /\ code = 0 => backupDirOf(R.db) \in fs
  /\ IF code = 0
     THEN Report(r, Log(R, "mongorestore executed successfully", <<>>, "info"), NoError)
     ELSE Report(r, R, ExitError("Mongorestore", code))
  /\ UNCHANGED <<now, fs, bucket, asyncOnce, enabled>>

\* ------------------------------------------------------------- sendToS3 events
\* putFile calls back with an error: nothing was sent.
PutFileError(r) ==
  LET R == [run[r] EXCEPT !.phase = "done"] IN
  /\ ~crashed /\ run[r].phase = "putFile"
  /\ Report(r, R, Err(<<"putFile failed">>, <<>>))
  /\ UNCHANGED <<now, fs, bucket, asyncOnce, enabled>>

\* putFile calls back with the response: the bucket holds the object when it answers 200.
PutFileResponse(r, status) ==
  LET R == run[r]
      key == S3Key(R.dest, R.archiveName) IN
  /\ ~crashed /\ R.phase = "putFile"
  /\ PathJoin(tmpDir, R.archiveName) \in fs
  /\ bucket' = IF status = 200 THEN bucket \cup {key} ELSE bucket
  /\ run' = [run EXCEPT ![r] = [R EXCEPT !.phase = "putResponse", !.status = status,
                                         !.puts = IF status = 200 THEN Append(@, key) ELSE @]]
  /\ UNCHANGED <<now, fs, crashed, asyncOnce, enabled>>

\* Mutant: the end of the response is a success whatever the status.
PutResponseEndAnyStatus(r) ==
  LET R == [run[r] EXCEPT !.phase = "done"] IN
  /\ ~crashed /\ run[r].phase = "putResponse"
  /\ Report(r, Log(R, "Successfully uploaded to s3", <<>>, ""), NoError)
  /\ UNCHANGED <<now, fs, bucket, asyncOnce, enabled>>
\* res.on('end') of sendToS3
PutResponseEnd(r) ==
  LET R == [run[r] EXCEPT !.phase = "done"] IN
  /\ ~crashed /\ run[r].phase = "putResponse"
  /\ IF R.status # 200
     THEN Report(r, R, StatusError(R.status))
     ELSE Report(r, Log(R, "Successfully uploaded to s3", <<>>, ""), NoError)
  /\ UNCHANGED <<now, fs, bucket, asyncOnce, enabled>>

\* ------------------------------------------------------------- getFromS3 events
\* getFile calls back with an error.
GetFileError(r) ==
  LET R == [run[r] EXCEPT !.phase = "done"] IN
  /\ ~crashed /\ run[r].phase = "getFile"
  /\ Report(r, Log(R, "getFile failed", <<>>, ""), Err(<<"Error when downloading">>, <<>>))
  /\ UNCHANGED <<now, fs, bucket, asyncOnce, enabled>>

\* getFile calls back with the response: the bucket answers 200 for an object
\* it holds and 404 for one it does not. The handler asks for the directory,
\* opens the output file and pipes the response into it.
GetFileResponse(r, status) ==
  LET R == run[r]
      L1 == Log(R, "Status ", <<>>, NumTag(status))
      L2 == Log(L1, "SAVING FILE to", PathStr(PathJoin(tmpDir, R.remote)), "") IN
  /\ ~crashed /\ R.phase = "getFile"
  /\ status = 200 => <<R.remote>> \in bucket
  /\ status = 404 => <<R.remote>> \notin bucket
  /\ run' = [run EXCEPT ![r] = [L2 EXCEPT !.phase = "download", !.status = status,
                                          !.mkdirPending = TRUE, !.file = "opening"]]
  /\ UNCHANGED <<now, fs, bucket, crashed, asyncOnce, enabled>>

\* What fs.mkdir can answer: the directory was made, it was there already,
\* or it could not be made (no permission on the parent, say).
MkdirOutcomes == {"ok", "EEXIST", "EACCES"}

\* Mutant: a directory that cannot be made fails the download.
MkdirDoneAborts(r, outcome) ==
  LET R == [run[r] EXCEPT !.mkdirPending = FALSE] IN
  /\ ~crashed /\ run[r].mkdirPending
  /\ outcome = "ok" => tmpDir \notin fs
  /\ outcome = "EEXIST" => tmpDir \in fs
  /\ IF outcome # "ok"
     THEN /\ fs' = fs
          /\ Report(r, Log(R, "Error in getFromS3: ", <<outcome>>, "error"), Err(<<outcome>>, <<>>))
     ELSE /\ fs' = fs \cup {tmpDir}
          /\ run' = [run EXCEPT ![r] = R]
          /\ crashed' = crashed
  /\ UNCHANGED <<now, bucket, asyncOnce, enabled>>
\* fs.mkdir(destination.replace(target, '')) calls back: an error is only logged.
MkdirDone(r, outcome) ==
  LET R == [run[r] EXCEPT !.mkdirPending = FALSE] IN
  /\ ~crashed /\ run[r].mkdirPending
  /\ outcome = "ok" => tmpDir \notin fs
  /\ outcome = "EEXIST" => tmpDir \in fs
  /\ IF outcome # "ok"
     THEN /\ fs' = fs
          /\ run' = [run EXCEPT ![r] = Log(R, "Error in getFromS3: ", <<outcome>>, "error")]
     ELSE /\ fs' = fs \cup {tmpDir}
          /\ run' = [run EXCEPT ![r] = R]
  /\ UNCHANGED <<now, bucket, crashed, asyncOnce, enabled>>

\* The open of fs.createWriteStream(destination) completes. Without the
\* directory it fails, the stream emits 'error', and nothing listens for it.
FileOpen(r) ==
  LET R == run[r] IN
  /\ ~crashed /\ R.file = "opening"
  /\ IF tmpDir \in fs
     THEN /\ fs' = fs \cup {PathJoin(tmpDir, R.remote)}
          /\ run' = [run EXCEPT ![r] =
                       [Produced(R, PathJoin(tmpDir, R.remote)) EXCEPT !.file = "open"]]
          /\ crashed' = crashed
     ELSE /\ fs' = fs
          /\ run' = [run EXCEPT ![r] = [R EXCEPT !.file = "failed"]]
          /\ crashed' = TRUE
  /\ UNCHANGED <<now, bucket, asyncOnce, enabled>>

\* Mutant: the end of a 200 response calls back at once, before the file closes.
GetResponseEndCallsBack(r) ==
  LET R == [run[r] EXCEPT !.ended = TRUE] IN
  /\ ~crashed /\ run[r].phase = "download" /\ ~run[r].ended
  /\ IF R.status # 200
     THEN Report(r, R, StatusError(R.status))
     ELSE Report(r, Log(R, "FILE FULLY DOWNLOADED", <<>>, ""), NoError)
  /\ UNCHANGED <<now, fs, bucket, asyncOnce, enabled>>
\* Mutant: a response that ends with a bad status takes the partial download away.
GetResponseEndRollsBack(r) ==
  LET R == [run[r] EXCEPT !.ended = TRUE] IN
  /\ ~crashed /\ run[r].phase = "download" /\ ~run[r].ended
  /\ IF R.status # 200
     THEN /\ Report(r, R, StatusError(R.status))
          /\ fs' = fs \ {PathJoin(tmpDir, R.remote)}
     ELSE /\ run' = [run EXCEPT ![r] = Log(R, "FILE FULLY DOWNLOADED", <<>>, "")]
          /\ crashed' = crashed
          /\ fs' = fs
  /\ UNCHANGED <<now, bucket, asyncOnce, enabled>>
\* res.on('end') of getFromS3; the pipe ends the output file at the same event.
GetResponseEnd(r) ==
  LET R == [run[r] EXCEPT !.ended = TRUE] IN
  /\ ~crashed /\ run[r].phase = "download" /\ ~run[r].ended
  /\ IF R.status # 200
     THEN Report(r, R, StatusError(R.status))
     ELSE /\ run' = [run EXCEPT ![r] = Log(R, "FILE FULLY DOWNLOADED", <<>>, "")]
          /\ crashed' = crashed
  /\ UNCHANGED <<now, fs, bucket, asyncOnce, enabled>>

\* Mutant: the close of the file is logged and the callback is forgotten.
FileCloseSilent(r) ==
  LET R == [run[r] EXCEPT !.file = "closed", !.phase = "done"] IN
  /\ ~crashed /\ run[r].phase = "download" /\ run[r].ended /\ run[r].file = "open"
  /\ run' = [run EXCEPT ![r] = Log(R, "FILE FULLY WRITTEN TO DISK", <<>>, "")]
  /\ UNCHANGED <<now, fs, bucket, crashed, asyncOnce, enabled>>
\* saveFile.on('close'): the file, opened and ended, has been flushed and closed.
FileClose(r) ==
  LET R == [run[r] EXCEPT !.file = "closed", !.phase = "done"] IN
  /\ ~crashed /\ run[r].phase = "download" /\ run[r].ended /\ run[r].file = "open"
  /\ Report(r, Log(R, "FILE FULLY WRITTEN TO DISK", <<>>, ""), NoError)
  /\ UNCHANGED <<now, fs, bucket, asyncOnce, enabled>>

\* ------------------------------------------------------------- specification
Next ==
  \/ Tick
  \/ \E r \in Runs :
       \/ \E d \in DBs, dst \in Destinations : sync(r, d, dst)
       \/ \E d \in DBs, f \in RemoteNames : restoreFromS3(r, d, f)
       \/ FsExists(r)
       \/ \E code \in ExitCodes : RmExit(r, code)
       \/ \E code \in ExitCodes : MongoDumpExit(r, code)
       \/ \E code \in ExitCodes : CompressExit(r, code)
       \/ \E code \in ExitCodes : UncompressExit(r, code)
       \/ \E code \in ExitCodes : MongoRestoreExit(r, code)
       \/ PutFileError(r)
       \/ \E status \in Statuses : PutFileResponse(r, status)
       \/ PutResponseEnd(r)
       \/ GetFileError(r)
       \/ \E status \in Statuses : GetFileResponse(r, status)
       \/ \E outcome \in MkdirOutcomes : MkdirDone(r, outcome)
       \/ FileOpen(r)
       \/ GetResponseEnd(r)
       \/ FileClose(r)

\* removeRF called directly, up to MaxCalls times in a row on one path, each
\* call made once the previous one has called back.
RmTargets == {tmpDir, backupDirOf("db1"), SpacedDir}
RmInitFiles == {{}} \cup {{tmpDir} \cup S : S \in SUBSET {backupDirOf("db1"), SpacedDir, FirstWordDir}}

CallRemoveRF(r, target) ==
  LET R == run[r] IN
  /\ ~crashed /\ r \in enabled
  /\ \/ R.kind = "none"
     \/ R.kind = "call" /\ R.phase = "done" /\ target = R.target /\ Len(R.existed) < MaxCalls
  /\ run' = [run EXCEPT ![r] = removeRF([R EXCEPT !.kind = "call", !.cur = Len(R.existed) + 1,
                                                   !.called = FALSE,
                                                   !.existed = Append(@, target \in fs)], target)]
  /\ UNCHANGED <<now, fs, bucket, crashed, asyncOnce, enabled>>

InitRm ==
  /\ now = 0 /\ bucket = {} /\ crashed = FALSE /\ asyncOnce = FALSE /\ enabled = {"r1"}
  /\ fs \in RmInitFiles
  /\ run = [r \in Runs |-> IdleRun]

NextRm ==
  \E r \in Runs :
    \/ \E target \in RmTargets : CallRemoveRF(r, target)
    \/ FsExists(r)
    \/ \E code \in ExitCodes : RmExit(r, code)

SpecRm == InitRm /\ [][NextRm]_vars

\* getArchiveName called directly, up to MaxNames times, as the clock goes on.
CallGetArchiveName(r, d) ==
  LET R == run[r] IN
  /\ r \in enabled /\ R.kind \in {"none", "name"} /\ Len(R.names) < MaxNames
  /\ run' = [run EXCEPT ![r] = [R EXCEPT !.kind = "name",
                                         !.names = Append(@, [db |-> d, at |-> now,
                                                              name |-> getArchiveName(d, now)])]]
  /\ UNCHANGED <<now, fs, bucket, crashed, asyncOnce, enabled>>

Elapse ==
  /\ now < MaxInstant
  /\ now' = now + 1
  /\ UNCHANGED <<fs, bucket, crashed, asyncOnce, enabled, run>>

InitName ==
  /\ now = 0 /\ fs = {} /\ bucket = {} /\ crashed = FALSE /\ asyncOnce = FALSE /\ enabled = {"r1"}
  /\ run = [r \in Runs |-> IdleRun]

NextName ==
  \/ Elapse
  \/ \E r \in Runs, d \in DBs : CallGetArchiveName(r, d)

SpecName == InitName /\ [][NextName]_vars

\* The child of the step in flight writes a chunk to one of its standard
\* streams. mongoDump, uncompressArchive and mongoRestore listen for 'data'
\* on both, compressDirectory on stderr only: a chunk with no listener is
\* dropped.
Streams == {"stdout", "stderr"}
ChunksOf(R, k) == {i \in 1..Len(R.chunks) : R.chunks[i].step = k}

ChildData(r, stream) ==
  LET R == run[r]
      n == Len(R.chunks) + 1
      C == [R EXCEPT !.chunks = Append(@, [step |-> R.cur, stream |-> stream])]
      listened == stream = "stderr" \/ Tasks(R.kind)[R.cur] # "compressDirectory" IN
  /\ ~crashed /\ R.kind \in {"backup", "restore"} /\ R.phase = "running"
  /\ Cardinality(ChunksOf(R, R.cur)) < MaxChunks
  /\ run' = [run EXCEPT ![r] =
               IF listened
               THEN Log(C, "chunk", <<stream>> \o DecStr(n), IF stream = "stdout" THEN "" ELSE "error")
               ELSE C]
  /\ UNCHANGED <<now, fs, bucket, crashed, asyncOnce, enabled>>

\* One invocation with the output of its child processes, for a
\* configuration without credentials.
InitIO ==
  /\ InitCommon /\ enabled = {"r1"} /\ asyncOnce = FALSE
  /\ \A r \in Runs : run[r].username = "" /\ run[r].password = ""
NextIO ==
  \/ Next
  \/ \E r \in Runs, stream \in Streams : ChildData(r, stream)
SpecIO == InitIO /\ [][NextIO]_vars

\* One invocation.
Init == InitCommon /\ enabled = {"r1"}
Spec == Init /\ [][Next]_vars

\* Two invocations in the same process, in any interleaving, on a clean disk
\* and with an async.series that does not guard its task callbacks.
Init2 ==
  /\ InitCommon /\ enabled = Runs /\ fs = {} /\ asyncOnce = FALSE
  /\ \A r \in Runs : run[r].username = "" /\ run[r].password = ""
Spec2 == Init2 /\ [][Next]_vars

\* ------------------------------------------------------------- histories
Pipelines == {"backup", "restore"}
HasReport(R, k, ok) ==
  \E i \in 1..Len(R.reports) : R.reports[i].step = k /\ ((R.reports[i].err = NoError) <=> ok)
ErrorReports(R) == {i \in 1..Len(R.reports) : R.reports[i].err # NoError}
FirstError(R) == R.reports[CHOOSE i \in ErrorReports(R) : \A j \in ErrorReports(R) : i <= j].err
AllSucceeded(R) ==
  R.reports = [k \in 1..Len(Tasks(R.kind)) |-> [step |-> k, err |-> NoError]]
Logged(R, tag, err) ==
  \E l \in 1..Len(R.log) : R.log[l] = [tag |-> tag, text |-> err.text, arg |-> err.arg]
HasExit(R, command, code) ==
  \E x \in 1..Len(R.exits) : R.exits[x].command = command /\ R.exits[x].code = code

\* ------------------------------------------------------------- C1
\* C1: in a backup run, once a step k has reported an error no step after k
\* has been started, the error is in the log at error level and the caller's
\* callback has received exactly that error; when the dump process exited
\* with code 1 the callback's error names Mongodump and code 1 and the store
\* client was never called.
C1_BackupShortCircuit ==
  \A r \in Runs :
    LET R == run[r] IN
    R.kind = "backup" =>
      /\ \A i \in 1..Len(R.reports) :
           R.reports[i].err # NoError =>
             /\ \A j \in 1..Len(R.started) : R.started[j] <= R.reports[i].step
             /\ Logged(R, "error", R.reports[i].err)
             /\ R.onComplete = <<R.reports[i].err>>
      /\ HasExit(R, "mongodump", 1) =>
           /\ Len(R.onComplete) = 1
           /\ R.onComplete[1].text[1] = "Mongodump"
           /\ R.onComplete[1].arg = <<"1">>
           /\ R.s3calls = <<>>

C1_Witness ==
  \E r \in Runs :
    /\ run[r].kind = "backup" /\ HasExit(run[r], "mongodump", 1)
    /\ Len(run[r].onComplete) = 1 /\ run[r].started = <<1, 2, 3>>

\* ------------------------------------------------------------- C2
\* C2: in a restore run whose download was answered with a status other than
\* 200, the caller's callback gets an error with that status once the
\* response has ended, and neither decompress (step 3) nor restore (step 4)
\* is ever started.
C2_FailedDownloadStopsRestore ==
  \A r \in Runs :
    LET R == run[r] IN
    (R.kind = "restore" /\ R.status \notin {0, 200}) =>
      /\ R.ended => (Len(R.onComplete) = 1 /\ R.onComplete[1].arg = DecStr(R.status))
      /\ \A j \in 1..Len(R.started) : R.started[j] <= 2

\* ------------------------------------------------------------- C3
\* C3: getFromS3 calls its callback without an error only when the response
\* has ended with status 200 and the output file has closed.
C3_DownloadSuccessOnlyOn200 ==
  \A r \in Runs :
    LET R == run[r] IN
    R.kind = "restore" =>
      \A i \in 1..Len(R.reports) :
        (R.reports[i].step = 2 /\ R.reports[i].err = NoError) =>
          (R.status = 200 /\ R.ended /\ R.file = "closed")

\* ------------------------------------------------------------- C4
\* The step's own work is over: the removal was decided, the child process
\* has exited, or the response has ended and the output file has closed.
FullyCompleted(R, k) ==
  LET name == Tasks(R.kind)[k] IN
  CASE name \in {"removeBackupDir", "removeArchive", "removeTmpDir"} ->
         \E i \in 1..Len(R.reports) : R.reports[i].step = k
    [] name \in {"mongoDump", "compressDirectory", "uncompressArchive", "mongoRestore"} ->
         \E x \in 1..Len(R.exits) : R.exits[x].step = k
    [] name = "getFromS3" -> R.ended /\ R.file = "closed"
    [] name = "sendToS3" -> R.phase = "done"

\* The steps of a run that still have an event to come.
InProgress(R) ==
  {k \in 1..Len(Tasks(R.kind)) :
     \/ k = R.cur /\ R.phase \in {"exists", "rm", "running", "putFile", "putResponse", "getFile"}
     \/ /\ Tasks(R.kind)[k] = "getFromS3" /\ R.status # 0
        /\ (~R.ended \/ R.file \in {"opening", "open"})}

\* C4: within a run the steps are started in order, each one only after the
\* one before it has reported success and has fully completed, and no two
\* steps of the run are in progress together.
C4_StrictlySequential ==
  \A r \in Runs :
    LET R == run[r] IN
    R.kind \in Pipelines =>
      /\ \A j \in 1..Len(R.started) :
           /\ R.started[j] = j
           /\ j > 1 => (HasReport(R, j - 1, TRUE) /\ FullyCompleted(R, j - 1))
      /\ Cardinality(InProgress(R)) <= 1

C4_Witness ==
  \E r \in Runs :
    /\ run[r].kind = "restore" /\ run[r].started = <<1, 2, 3>> /\ run[r].phase = "running"
    /\ run[r].status = 200

\* ------------------------------------------------------------- C5
\* C5: the caller's callback is invoked at most once; it has been invoked
\* with the error of the first failing step as soon as a step has reported
\* an error, with no error as soon as every step has reported success, and
\* not at all before.
C5_OnCompleteOnce ==
  \A r \in Runs :
    LET R == run[r] IN
    R.kind \in Pipelines =>
      R.onComplete = IF ErrorReports(R) # {} THEN <<FirstError(R)>>
                     ELSE IF AllSucceeded(R) THEN <<NoError>>
                     ELSE <<>>

C5_Witness ==
  \E r \in Runs :
    /\ run[r].kind = "restore" /\ run[r].onComplete = <<StatusError(404)>>
    /\ Len(run[r].reports) = 3 /\ run[r].phase = "running"

\* ------------------------------------------------------------- C6
\* The staging paths the steps of an invocation have produced so far: the
\* dump and the archive of a backup, the download of a restore.
StagingPaths(R) ==
  IF R.kind = "backup"
  THEN (IF HasReport(R, 3, TRUE) THEN {backupDirOf(R.db)} ELSE {})
         \cup (IF HasReport(R, 4, TRUE) THEN {PathJoin(tmpDir, R.archiveName)} ELSE {})
  ELSE IF R.file \in {"open", "closed"} THEN {PathJoin(tmpDir, R.remote)} ELSE {}

\* C6: a step of one invocation never removes a staging path that another
\* invocation, in progress for a different database name, has produced.
C6_NoInterference ==
  [][\A o \in Runs, r \in Runs :
       ( /\ r # o /\ run'[o] = run[o]
         /\ run[o].kind \in Pipelines /\ InProgress(run[o]) # {}
         /\ run[r].kind \in Pipelines /\ run[r].db # run[o].db )
       => (StagingPaths(run[o]) \cap fs) \subseteq fs']_vars

\* ------------------------------------------------------------- C7
\* C7: when the caller's callback of a backup run has been called without an
\* error, the run has stored exactly one object, under the destination
\* prefix and the archive name computed from the database name and the clock
\* at the start of the run, and the bucket holds it.
C7_SuccessfulBackupStoresOne ==
  \A r \in Runs :
    LET R == run[r]
        key == (IF R.dest = "" THEN <<>> ELSE << <<R.dest>> >>) \o <<R.archiveName>> IN
    (R.kind = "backup" /\ R.onComplete = <<NoError>>) =>
      /\ R.archiveName = <<R.db, "_">> \o DecStr(1970) \o <<"_", "1", "_", "1", "_">>
                           \o DecStr(R.startedAt) \o <<".tar.gz">>
      /\ R.puts = <<key>>
      /\ key \in bucket
      /\ Len(R.s3calls) = 1 /\ R.s3calls[1].key = key

C7_Witness ==
  \E r \in Runs :
    /\ run[r].kind = "backup" /\ run[r].onComplete = <<NoError>>
    /\ run[r].dest = "backups" /\ run[r].startedAt = 1

\* ------------------------------------------------------------- C8
ProcessSteps == {"mongoDump", "compressDirectory", "uncompressArchive", "mongoRestore"}
\* The name the runners' messages give the command they spawn.
Capitalized(command) ==
  CASE command = "mongodump" -> "Mongodump"
    [] command = "tar" -> "Tar"
    [] command = "mongorestore" -> "Mongorestore"

\* C8: a process step has called back exactly when its child has exited:
\* without an error when the exit code is 0, and otherwise with an error
\* whose message names the command and ends in the exit code.
C8_ExitCodeDecides ==
  \A r \in Runs :
    LET R == run[r] IN
    R.kind \in Pipelines =>
      \A k \in 1..Len(Tasks(R.kind)) :
        Tasks(R.kind)[k] \in ProcessSteps =>
          LET reps == {i \in 1..Len(R.reports) : R.reports[i].step = k}
              exs == {x \in 1..Len(R.exits) : R.exits[x].step = k} IN
          /\ Cardinality(reps) = Cardinality(exs) /\ Cardinality(exs) <= 1
          /\ \A i \in reps, x \in exs :
               IF R.exits[x].code = 0 THEN R.reports[i].err = NoError
               ELSE /\ R.reports[i].err # NoError
                    /\ R.reports[i].err.text[1] = Capitalized(R.exits[x].command)
                    /\ R.reports[i].err.arg = DecStr(R.exits[x].code)

C8_Witness ==
  \E r \in Runs :
    /\ run[r].kind = "restore" /\ HasExit(run[r], "tar", 2)
    /\ HasReport(run[r], 3, FALSE)

\* ------------------------------------------------------------- C9
\* C9: sendToS3 calls back at most once: with the transport's error when
\* putFile fails, and otherwise not before the response has ended, without
\* an error only when the status is 200 and with an error holding the status
\* when it is not.
C9_UploadOutcome ==
  \A r \in Runs :
    LET R == run[r]
        reps == {i \in 1..Len(R.reports) : R.reports[i].step = 5} IN
    R.kind = "backup" =>
      /\ Cardinality(reps) <= 1
      /\ (R.cur = 5 /\ R.phase \in {"putFile", "putResponse"}) => reps = {}
      /\ (R.cur = 5 /\ R.phase = "done") => reps # {}
      /\ \A i \in reps :
           /\ R.reports[i].err = NoError <=> R.status = 200
           /\ R.status = 0 => R.reports[i].err.text = <<"putFile failed">>
           /\ R.status \notin {0, 200} => R.reports[i].err.arg = DecStr(R.status)

C9_Witness ==
  \E r \in Runs :
    /\ run[r].kind = "backup" /\ run[r].cur = 5 /\ run[r].phase = "done"
    /\ run[r].status = 500 /\ HasReport(run[r], 5, FALSE)

\* ------------------------------------------------------------- C10
\* C10: removeRF called on one path up to MaxCalls times in a row: a call
\* that finds the path absent reports success and launches no subprocess,
\* and when every removal launched has exited with code 0 every call has
\* reported success and the path is absent once the first call has reported.
C10_RemoveIdempotent ==
  \A r \in Runs :
    LET R == run[r] IN
    R.kind = "call" =>
      /\ Len(R.spawned) <= Cardinality({j \in 1..Len(R.existed) : R.existed[j]})
      /\ \A i \in 1..Len(R.reports) : ~R.existed[i] => R.reports[i].err = NoError
      /\ (\A x \in 1..Len(R.exits) : R.exits[x].code = 0) =>
           /\ \A i \in 1..Len(R.reports) : R.reports[i].err = NoError
           /\ Len(R.reports) >= 1 => R.target \notin fs

\* ------------------------------------------------------------- C11
\* The run has called the caller's callback, or its download cannot deliver
\* the close of the output file because the file failed to open.
Terminal(R) == Len(R.onComplete) = 1 \/ R.file = "failed"

\* The events an invocation still has to receive, counted generously: those
\* of the step in flight, those of the download, and those of the steps the
\* series has not yet called.
EventsToCome(R) ==
  (Len(Tasks(R.kind)) - R.completed) * 8
    + (CASE R.phase = "getFile" -> 5
         [] R.phase = "exists" -> 3
         [] R.phase \in {"rm", "putFile"} -> 2
         [] R.phase \in {"running", "putResponse"} -> 1
         [] OTHER -> 0)
    + (IF R.phase = "download" /\ ~R.ended THEN 1 ELSE 0)
    + (IF R.mkdirPending THEN 1 ELSE 0)
    + (CASE R.file = "opening" -> 2 [] R.file = "open" -> 1 [] OTHER -> 0)

\* C11: a started run that has not yet called the caller's callback (and
\* whose output file did not fail to open) always has a step in progress,
\* in a process that is still alive, and every event it receives leaves it
\* with fewer events to come: with every child process exiting and the
\* store and the file system answering, the run ends by calling the
\* caller's callback.
C11_RunsTerminate ==
  /\ [](\A r \in Runs :
          (run[r].kind \in Pipelines /\ ~Terminal(run[r])) =>
            (~crashed /\ InProgress(run[r]) # {}))
  /\ [][\A r \in Runs :
          (run[r].kind \in Pipelines /\ run'[r] # run[r]) =>
            (EventsToCome(run'[r]) < EventsToCome(run[r]) /\ EventsToCome(run'[r]) >= 0)]_vars

C11_Witness ==
  \E r \in Runs :
    /\ run[r].kind = "restore" /\ run[r].onComplete = <<NoError>>
    /\ run[r].ended /\ run[r].file = "closed"


\* ------------------------------------------------------------- C12
CleanTasks == {"removeBackupDir", "removeArchive", "removeTmpDir"}

\* C12: nothing is ever taken out of the store, a path leaves the disk only
\* when the rm of a clean step (backup steps 1-2, restore step 1) exits, and
\* then it is the step's target or lies under it; so what a run has produced
\* (the dump, the archive, the download, whole or partial) is on disk at
\* every later moment of the run, and still when it has ended.
C12_NoRollback ==
  /\ [](\A r \in Runs : run[r].kind \in Pipelines => StagingPaths(run[r]) \subseteq fs)
  /\ [][/\ bucket \subseteq bucket'
        /\ fs \ fs' # {} =>
             \E r \in Runs :
               /\ run[r].kind \in Pipelines /\ run[r].phase = "rm"
               /\ Tasks(run[r].kind)[run[r].cur] \in CleanTasks
               /\ run'[r].phase # "rm"
               /\ \A p \in fs \ fs' : IsPrefix(run[r].target, p)]_vars

\* A restore has failed on a bad status and its partial download is on disk.
C12_Witness ==
  \E r \in Runs :
    /\ run[r].kind = "restore" /\ Len(run[r].onComplete) = 1
    /\ run[r].onComplete[1] # NoError
    /\ run[r].status # 200 /\ run[r].ended
    /\ PathJoin(tmpDir, run[r].remote) \in fs


\* ------------------------------------------------------------- C13
\* The positions of an argument list that hold the flag.
FlagAt(args, flag) == {i \in 1..Len(args) : args[i] = <<flag>>}

\* C13: the argument list of every mongodump and mongorestore that was
\* spawned holds -u followed by the username and -p followed by the password
\* when both are present, and neither -u nor -p otherwise (one of the two
\* present, or none).
C13_CredentialFlags ==
  \A r \in Runs :
    LET R == run[r] IN
    \A a \in 1..Len(R.argv) :
      LET args == R.argv[a].args IN
      IF R.username # "" /\ R.password # ""
      THEN /\ \E i \in FlagAt(args, "-u") : i < Len(args) /\ args[i + 1] = <<R.username>>
           /\ \E i \in FlagAt(args, "-p") : i < Len(args) /\ args[i + 1] = <<R.password>>
      ELSE FlagAt(args, "-u") = {} /\ FlagAt(args, "-p") = {}

\* A dump was spawned for a configuration with a username and no password.
C13_Witness ==
  \E r \in Runs :
    /\ run[r].username # "" /\ run[r].password = ""
    /\ \E a \in 1..Len(run[r].argv) : run[r].argv[a].command = "mongodump"


C15_CallbackAtMostOnce ==
  \A r \in Runs :
    LET R == run[r] IN
    R.kind \in Pipelines =>
      \A i, j \in 1..Len(R.reports) : R.reports[i].step = R.reports[j].step => i = j


\* ------------------------------------------------------------- C16
\* The log entry getFromS3 writes for a directory that could not be made.
IsMkdirError(entry) == entry.tag = "error" /\ entry.text = <<"Error in getFromS3: ">>

\* C16: when the making of the download's directory fails, the error goes to
\* the log at error level and nothing else of the run changes: no callback
\* is called, the download stays as it was and the process stays alive. The
\* download calls back only on the transport error, at the end of the
\* response (an error for a bad status) and at the close of the output file.
C16_MkdirFailureOnlyLogged ==
  [][\A r \in Runs :
       LET R == run[r]
           Q == run'[r] IN
       /\ (R.mkdirPending /\ ~Q.mkdirPending /\ fs' = fs) =>
            /\ Len(Q.log) = Len(R.log) + 1 /\ IsMkdirError(Q.log[Len(Q.log)])
            /\ Q = [R EXCEPT !.mkdirPending = FALSE, !.log = Q.log]
            /\ crashed' = crashed
       /\ (R.kind = "restore" /\ R.cur = 2 /\ Q.reports # R.reports) =>
            LET e == Q.reports[Len(Q.reports)].err IN
            \/ R.phase = "getFile" /\ e = Err(<<"Error when downloading">>, <<>>)
            \/ R.phase = "download" /\ ~R.ended /\ Q.ended /\ e = StatusError(R.status)
            \/ R.phase = "download" /\ R.file = "open" /\ Q.file = "closed" /\ e = NoError]_vars

\* The directory could not be made and the download has gone on to the end
\* of a 404 response, which alone made it fail.
C16_Witness ==
  \E r \in Runs :
    /\ \E l \in 1..Len(run[r].log) : IsMkdirError(run[r].log[l])
    /\ run[r].reports = <<[step |-> 1, err |-> NoError], [step |-> 2, err |-> StatusError(404)]>>
    /\ run[r].onComplete = <<StatusError(404)>>


\* ------------------------------------------------------------- C17
\* C17: in a restore run, once the open of the download's output file has
\* been carried out (the file is open, closed again, or failed to open), the
\* making of its directory has completed.
C17_DirectoryBeforeOpen ==
  \A r \in Runs :
    (run[r].kind = "restore" /\ run[r].file \in {"open", "closed", "failed"}) =>
      ~run[r].mkdirPending


\* ------------------------------------------------------------- C18
\* The staging path a step reads, as sync and restoreFromS3 hand it over:
\* compress archives tmpDir/db, upload sends tmpDir/archiveName, decompress
\* unpacks tmpDir/remoteFilename and restore loads backupDir = tmpDir/db.
InputOf(R, k) ==
  LET name == Tasks(R.kind)[k] IN
  CASE name = "compressDirectory" -> backupDirOf(R.db)
    [] name = "sendToS3" -> PathJoin(tmpDir, R.archiveName)
    [] name = "uncompressArchive" -> PathJoin(tmpDir, R.remote)
    [] name = "mongoRestore" -> backupDirOf(R.db)
ReadingTasks == {"compressDirectory", "sendToS3", "uncompressArchive", "mongoRestore"}

PathsOf(history, k) == {history[i].path : i \in {j \in 1..Len(history) : history[j].step = k}}

\* C18: in a backup run step 2 cleans, step 4 produces and step 5 reads
\* tmpDir/archiveName, and step 1 cleans, step 3 produces and step 4
\* archives tmpDir/db; in a restore run the file the download writes is the
\* file decompress reads. Whenever a step that reads a staging path starts
\* and the path is on disk, the step before it, in the same run, has put it
\* there afresh: it was not on disk before.
C18_HandOver ==
  /\ [](\A r \in Runs :
          LET R == run[r] IN
          /\ R.kind = "backup" =>
               /\ PathsOf(R.cleaned, 1) \cup PathsOf(R.outputs, 3) \subseteq {InputOf(R, 4)}
               /\ PathsOf(R.cleaned, 2) \cup PathsOf(R.outputs, 4) \subseteq {InputOf(R, 5)}
          /\ R.kind = "restore" => PathsOf(R.outputs, 2) \subseteq {InputOf(R, 3)})
  /\ [][\A r \in Runs :
          LET Q == run'[r] IN
          (Q.kind \in Pipelines /\ Q.started # run[r].started
             /\ Tasks(Q.kind)[Q.cur] \in ReadingTasks /\ InputOf(Q, Q.cur) \in fs') =>
            \E i \in 1..Len(Q.outputs) :
              Q.outputs[i] = [step |-> Q.cur - 1, path |-> InputOf(Q, Q.cur), fresh |-> TRUE]]_vars

\* A backup of db1 has come to its upload on a disk where an earlier backup
\* of db1 had left its dump.
C18_Witness ==
  \E r \in Runs :
    /\ run[r].kind = "backup" /\ run[r].db = "db1" /\ run[r].cur = 5
    /\ \E l \in 1..Len(run[r].log) : run[r].log[l].text = <<"Removing ">>


\* ------------------------------------------------------------- C19
\* C19: when the child of any of the four process steps writes a chunk, the
\* chunk is logged in the same step of the event loop, at info level from
\* standard output and at error level from standard error, while the child
\* has not yet been seen to exit.
C19_StreamingContract ==
  [][\A r \in Runs :
       LET R == run[r]
           Q == run'[r] IN
       (Q.kind \in Pipelines /\ Len(Q.chunks) = Len(R.chunks) + 1) =>
         LET c == Q.chunks[Len(Q.chunks)] IN
         /\ R.phase = "running" /\ Q.exits = R.exits
         /\ Q.log = Append(R.log, [tag |-> IF c.stream = "stdout" THEN "info" ELSE "error",
                                   text |-> <<"chunk">>,
                                   arg |-> <<c.stream>> \o DecStr(Len(Q.chunks))])]_vars

====
